---- MODULE Spec2Model ----
(***************************************************************************)
(* A model of the CancelShield API server (src/server.py): the credential  *)
(* helpers, the authorization gate get_current_user, and the handlers      *)
(* register, login, list_subscriptions, create_subscription and            *)
(* send_test_email, over a store of two collections and a mail             *)
(* collaborator.                                                           *)
(*                                                                         *)
(* Representation.                                                         *)
(*  - A string that may carry a bearer token is a sequence of atoms: the   *)
(*    literal "Bearer ", the literal "Basic ", or one token.  A token has  *)
(*    no blank in it, so "Bearer " never occurs inside a token atom.       *)
(*  - A token is its payload (sub, exp) and its signature; the HS256       *)
(*    signature is the triple (key, sub, exp) it was computed from.        *)
(*  - The clock counts ticks, TicksPerSec of them to a second; the token   *)
(*    library reads the clock in whole seconds.                            *)
(*  - user_id and subscription_id are the numbers drawn from uuid4, in     *)
(*    order of drawing; 0 stands for None where an id is expected.         *)
(***************************************************************************)
EXTENDS Integers, Sequences, FiniteSets, TLC

VARIABLES users, subscriptions, pending, now, issued, mails, resp

vars == <<users, subscriptions, pending, now, issued, mails, resp>>

(***************************************************************************)
(* Bounds of the model.                                                    *)
(***************************************************************************)
MaxUsers == 2
MaxSubs == 1
MaxTokens == 2
MaxMails == 1
MaxPending == 2
TicksPerSec == 2
SecondsPerDay == 1
EarlyTicks == 0

(***************************************************************************)
(* Program constants.                                                      *)
(***************************************************************************)
JWT_SECRET == "dev-secret-change-this"
JWT_EXPIRE_DAYS == 7
SENDER_EMAIL == "onboarding@resend.dev"
PageLimit == 100

OtherSecret == "another-secret"
None == "<None>"
NoId == 0

\* The token lifetime in ticks.
Lifetime == TicksPerSec * SecondsPerDay * JWT_EXPIRE_DAYS

\* The instants at which requests arrive: the first ticks, and the ticks
\* that follow the expiry instant of a token issued at tick 0.
Instants == (0 .. EarlyTicks) \cup ((Lifetime + 1) .. (Lifetime + TicksPerSec))

Emails == {"alice@x.com", "bob@x.com"}
Passwords == {"pw123"}
WrongPasswords == {"hunter2"}
Names == {"Al"}

\* Python truthiness of a JSON string-or-null value: None and "" are falsy.
Falsy(v) == v = None \/ v = ""

\* timegm(datetime.utcnow().utctimetuple()): the clock in whole seconds.
Seconds(t) == t \div TicksPerSec

(***************************************************************************)
(* Password hashing (passlib CryptContext, scheme bcrypt).                 *)
(***************************************************************************)
\* hash_password with a fixed salt.
hash_password_fixedsalt(password, salt) ==
    [scheme |-> "bcrypt", salt |-> 0, digest |-> password]

\* pwd_context.hash(password) with the salt drawn for this call.
hash_password(password, salt) ==
    [scheme |-> "bcrypt", salt |-> salt, digest |-> password]

\* pwd_context.verify(password, hashed): raises TypeError when the secret
\* is not a string, raises UnknownHashError when the hash is of no known
\* scheme, otherwise compares the digest recomputed under the hash's salt.
verify_password(password, hashed) ==
    IF password = None THEN [raised |-> TRUE, value |-> FALSE]
    ELSE IF hashed.scheme # "bcrypt" THEN [raised |-> TRUE, value |-> FALSE]
    ELSE [raised |-> FALSE, value |-> (hashed.digest = password)]

(***************************************************************************)
(* Tokens.                                                                 *)
(***************************************************************************)
Sign(key, sub, exp) == [key |-> key, sub |-> sub, exp |-> exp]

NoToken == [kind |-> "none", sub |-> NoId, exp |-> 0, sig |-> Sign("", NoId, 0)]
JunkToken == [kind |-> "junk", sub |-> NoId, exp |-> 0, sig |-> Sign("", NoId, 0)]

\* jwt.encode(payload, key, algorithm): a datetime claim is converted to
\* whole seconds.
jwt_encode(sub, expTicks, key) ==
    [kind |-> "jwt", sub |-> sub, exp |-> Seconds(expTicks),
     sig |-> Sign(key, sub, Seconds(expTicks))]

\* create_access_token without the timedelta added to the clock.
create_access_token_nolifetime(user_id, t) ==
    jwt_encode(user_id, t, JWT_SECRET)

create_access_token(user_id, t) ==
    jwt_encode(user_id, t + TicksPerSec * SecondsPerDay * JWT_EXPIRE_DAYS,
               JWT_SECRET)

BearerAtom == [text |-> "Bearer ", tok |-> NoToken]
BasicAtom == [text |-> "Basic ", tok |-> NoToken]
TokenAtom(tok) == [text |-> "<token>", tok |-> tok]

\* jwt.decode(token, key, algorithms): raises a JWTError unless the string
\* is one well-formed token, signed with key over its own payload, whose
\* exp is not below the clock's whole second.
jwt_decode(str, key, t) ==
    IF Len(str) # 1 \/ str[1].tok.kind # "jwt"
      THEN [raised |-> TRUE, error |-> "JWTError", sub |-> NoId]
    ELSE IF str[1].tok.sig # Sign(key, str[1].tok.sub, str[1].tok.exp)
      THEN [raised |-> TRUE, error |-> "JWTError", sub |-> NoId]
    ELSE IF str[1].tok.exp < Seconds(t)
      THEN [raised |-> TRUE, error |-> "ExpiredSignatureError", sub |-> NoId]
    ELSE [raised |-> FALSE, error |-> "", sub |-> str[1].tok.sub]

\* The exceptions that "except JWTError" catches: JWTError and its subclasses.
JWTErrors == {"JWTError", "ExpiredSignatureError", "JWTClaimsError"}

\* The value standing for an exception that leaves decode_access_token.
Propagated == -1

\* decode_access_token catching only the expiry error.
decode_access_token_narrow(str, t) ==
    LET r == jwt_decode(str, JWT_SECRET, t)
    IN IF ~r.raised THEN r.sub
       ELSE IF r.error = "ExpiredSignatureError" THEN NoId
       ELSE Propagated

decode_access_token(str, t) ==
    LET r == jwt_decode(str, JWT_SECRET, t)
    IN IF ~r.raised THEN r.sub
       ELSE IF r.error \in JWTErrors THEN NoId
       ELSE Propagated

(***************************************************************************)
(* The store.                                                              *)
(***************************************************************************)
NoHash == [scheme |-> "", salt |-> 0, digest |-> ""]
IsoString(t) == [fmt |-> "iso", t |-> t]
DateTime(t) == [fmt |-> "datetime", t |-> t]

NoUser == [user_id |-> NoId, email |-> "", name |-> "", password_hash |-> NoHash,
           subscription_tier |-> "", created_at |-> IsoString(0)]

\* db.users.find_one(filter): the first document, in insertion order, that
\* matches; NoUser stands for None.
\* A lookup on a field no document has: it finds nothing.
find_one_by_email_nomatch(coll, email) == NoUser

find_one_by_email(coll, email) ==
    LET Match(u) == u.email = email
        found == SelectSeq(coll, Match)
    IN IF found = <<>> THEN NoUser ELSE found[1]

\* A lookup with an empty filter: it finds the first document.
find_one_by_user_id_nofilter(coll, user_id) ==
    IF coll = <<>> THEN NoUser ELSE coll[1]

find_one_by_user_id(coll, user_id) ==
    LET Match(u) == u.user_id = user_id
        found == SelectSeq(coll, Match)
    IN IF found = <<>> THEN NoUser ELSE found[1]

\* uuid4 and the bcrypt salt are fresh at every draw: the n-th user id (and
\* salt) drawn is n, the n-th subscription id drawn is n.
NextUserId == Len(users) + Cardinality(pending) + 1
NextSubscriptionId == Len(subscriptions) + 1

\* db.subscriptions.find({"user_id": user_id}): the matching documents in
\* insertion order.
find_subscriptions_nofilter(coll, user_id) == coll

find_subscriptions(coll, user_id) ==
    LET Match(d) == d.user_id = user_id
    IN SelectSeq(coll, Match)

\* cursor.to_list(n): at most the first n documents.
to_list(docs, n) == IF Len(docs) <= n THEN docs ELSE SubSeq(docs, 1, n)

(***************************************************************************)
(* The authorization gate.                                                 *)
(***************************************************************************)
\* A header value: absent (None), or the string made of the atoms in parts.
NoHeader == [present |-> FALSE, parts |-> <<>>]
HeaderOf(parts) == [present |-> TRUE, parts |-> parts]

\* authorization.startswith("Bearer ")
startswith_bearer(parts) == Len(parts) >= 1 /\ parts[1] = BearerAtom

\* authorization.replace("Bearer ", ""): every occurrence is removed.
replace_bearer(parts) ==
    LET Keep(a) == a # BearerAtom
    IN SelectSeq(parts, Keep)

GateResult(status, detail, user) ==
    [status |-> status, detail |-> detail, user |-> user]

\* datetime.fromisoformat on the stored created_at string.
fromisoformat(c) == IF c.fmt = "iso" THEN DateTime(c.t) ELSE c

get_current_user(authorization, t, coll) ==
    IF ~authorization.present \/ authorization.parts = <<>>
         \/ ~startswith_bearer(authorization.parts)
      THEN GateResult(401, "Not authenticated", NoUser)
    ELSE LET token == replace_bearer(authorization.parts)
             user_id == decode_access_token(token, t)
             user == find_one_by_user_id(coll, user_id)
         IN IF user_id = Propagated
              THEN GateResult(500, "Internal Server Error", NoUser)
            ELSE IF user_id = NoId
              THEN GateResult(401, "Invalid token", NoUser)
            ELSE IF user = NoUser
              THEN GateResult(401, "User not found", NoUser)
            ELSE GateResult(200, "",
                    [user EXCEPT !.created_at = fromisoformat(user.created_at)])

(***************************************************************************)
(* Responses.                                                              *)
(***************************************************************************)
Response(op, status, detail, token, items) ==
    [op |-> op, status |-> status, detail |-> detail,
     access_token |-> token, items |-> items]

NoResponse == Response("", 0, "", NoToken, <<>>)

\* A token handed to a client: the token, whom it was issued for, and when.
Issued(token, user_id, at) == [token |-> token, user_id |-> user_id, at |-> at]

(***************************************************************************)
(* What a client may send.                                                 *)
(***************************************************************************)
IssuedTokens == {i.token : i \in issued}

\* An issued token with its payload altered and its signature kept.
TamperedTokens ==
    {[k EXCEPT !.sub = u] : k \in IssuedTokens, u \in 1 .. MaxUsers}
      \cup {[k EXCEPT !.exp = k.exp + SecondsPerDay] : k \in IssuedTokens}

\* Tokens signed by somebody who does not hold JWT_SECRET.
ForgedTokens ==
    {jwt_encode(u, now + Lifetime, OtherSecret) : u \in 1 .. MaxUsers}

ClientTokens ==
    IssuedTokens \cup (TamperedTokens \ IssuedTokens) \cup ForgedTokens
      \cup {JunkToken}

Headers ==
    {NoHeader, HeaderOf(<<>>), HeaderOf(<<BearerAtom>>)}
      \cup {HeaderOf(<<BearerAtom, TokenAtom(k)>>) : k \in ClientTokens}
      \cup {HeaderOf(<<BasicAtom, TokenAtom(k)>>) : k \in ClientTokens}
      \cup {HeaderOf(<<TokenAtom(k)>>) : k \in ClientTokens}
      \cup {HeaderOf(<<BearerAtom, BearerAtom, TokenAtom(k)>>) : k \in ClientTokens}

Companies == {"Netflix", "", None}
Amounts == {"15.99", "abc", None}
RenewalDates == {"2025-01-01", "soon", None}

SubscriptionCreate(company, amount, renewal_date) ==
    [company |-> company, amount |-> amount, renewal_date |-> renewal_date]

\* The request bodies tried: the well-formed one, and every body that
\* differs from it in one field.
ValidData == SubscriptionCreate("Netflix", "15.99", "2025-01-01")
DataInputs ==
    {SubscriptionCreate(c, "15.99", "2025-01-01") : c \in Companies}
      \cup {SubscriptionCreate("Netflix", a, "2025-01-01") : a \in Amounts}
      \cup {SubscriptionCreate("Netflix", "15.99", d) : d \in RenewalDates}

\* The headers requests are sent with: every shape of header around an
\* issued token or a string that is no token, and one forged token.
RequestTokens ==
    IssuedTokens \cup {JunkToken, jwt_encode(1, now + Lifetime, OtherSecret)}
RequestHeaders ==
    {NoHeader, HeaderOf(<<>>)}
      \cup {HeaderOf(<<BearerAtom, TokenAtom(k)>>) : k \in RequestTokens}
      \cup {HeaderOf(<<BasicAtom, TokenAtom(k)>>) : k \in IssuedTokens}
      \cup {HeaderOf(<<BearerAtom, BearerAtom, TokenAtom(k)>>) : k \in IssuedTokens}

\* The (header, body) pairs create_subscription is called with.
CreateInputs ==
    {<<h, ValidData>> : h \in RequestHeaders}
      \cup {<<HeaderOf(<<BearerAtom, TokenAtom(k)>>), d>> :
                k \in IssuedTokens, d \in DataInputs}

\* The (header, delivered) pairs send_test_email is called with: the mail
\* collaborator delivers, or fails.
SendInputs ==
    {<<h, TRUE>> : h \in RequestHeaders}
      \cup {<<HeaderOf(<<BearerAtom, TokenAtom(k)>>), FALSE>> : k \in IssuedTokens}

\* The (email, password) pairs of register and login requests.
RegisterInputs ==
    {<<e, p>> : e \in Emails, p \in Passwords \cup {None, ""}}
      \cup {<<e, p>> : e \in {None, ""}, p \in Passwords}
LoginInputs ==
    {<<e, p>> : e \in Emails \cup {None},
                p \in Passwords \cup WrongPasswords \cup {None}}

Init ==
    /\ users = <<>>
    /\ subscriptions = <<>>
    /\ pending = {}
    /\ now = 0
    /\ issued = {}
    /\ mails = <<>>
    /\ resp = NoResponse

(***************************************************************************)
(* POST /api/auth/register, up to the await of insert_one.                 *)
(***************************************************************************)
\* register writing the record before it looks the email up: the request that
\* is answered "Email already exists" has stored its record all the same.
register_eager(email, password, name) ==
    IF Falsy(email) \/ Falsy(password)
      THEN /\ resp' = Response("register", 400, "Email and password required",
                               NoToken, <<>>)
           /\ UNCHANGED <<users, subscriptions, pending, now, issued, mails>>
    ELSE IF find_one_by_email(users, email) # NoUser
      THEN /\ Len(users) < MaxUsers
           /\ users' = Append(users,
                 [user_id |-> NextUserId,
                  email |-> email,
                  name |-> name,
                  password_hash |-> hash_password(password, NextUserId),
                  subscription_tier |-> "free",
                  created_at |-> IsoString(now)])
           /\ resp' = Response("register", 400, "Email already exists",
                               NoToken, <<>>)
           /\ UNCHANGED <<subscriptions, pending, now, issued, mails>>
    ELSE /\ Len(users) + Cardinality(pending) < MaxUsers
         /\ Cardinality(pending) < MaxPending
         /\ pending' = pending \cup
               {[user_id |-> NextUserId,
                 email |-> email,
                 name |-> name,
                 password_hash |-> hash_password(password, NextUserId),
                 subscription_tier |-> "free",
                 created_at |-> IsoString(now)]}
         /\ UNCHANGED <<users, subscriptions, now, issued, mails, resp>>

register(email, password, name) ==
    IF Falsy(email) \/ Falsy(password)
      THEN /\ resp' = Response("register", 400, "Email and password required",
                               NoToken, <<>>)
           /\ UNCHANGED <<users, subscriptions, pending, now, issued, mails>>
    ELSE IF find_one_by_email(users, email) # NoUser
      THEN /\ resp' = Response("register", 400, "Email already exists",
                               NoToken, <<>>)
           /\ UNCHANGED <<users, subscriptions, pending, now, issued, mails>>
    ELSE /\ Len(users) + Cardinality(pending) < MaxUsers
         /\ Cardinality(pending) < MaxPending
         /\ pending' = pending \cup
               {[user_id |-> NextUserId,
                 email |-> email,
                 name |-> name,
                 password_hash |-> hash_password(password, NextUserId),
                 subscription_tier |-> "free",
                 created_at |-> IsoString(now)]}
         /\ UNCHANGED <<users, subscriptions, now, issued, mails, resp>>

\* register_insert writing with replace_one(upsert) on the email instead of
\* insert_one: a stored record with the same email is overwritten.
register_insert_upsert(user) ==
    /\ user \in pending
    /\ Cardinality(issued) < MaxTokens
    /\ pending' = pending \ {user}
    /\ users' = IF \E i \in 1 .. Len(users) : users[i].email = user.email
                  THEN [i \in 1 .. Len(users) |->
                          IF users[i].email = user.email THEN user ELSE users[i]]
                  ELSE Append(users, user)
    /\ issued' = issued \cup {Issued(create_access_token(user.user_id, now),
                                    user.user_id, now)}
    /\ resp' = Response("register", 200, "",
                        create_access_token(user.user_id, now), <<>>)
    /\ UNCHANGED <<subscriptions, now, mails>>

\* register resumed: insert_one completes and the token is returned.
register_insert(user) ==
    /\ user \in pending
    /\ Cardinality(issued) < MaxTokens
    /\ pending' = pending \ {user}
    /\ users' = Append(users, user)
    /\ issued' = issued \cup {Issued(create_access_token(user.user_id, now),
                                    user.user_id, now)}
    /\ resp' = Response("register", 200, "",
                        create_access_token(user.user_id, now), <<>>)
    /\ UNCHANGED <<subscriptions, now, mails>>

(***************************************************************************)
(* POST /api/auth/login                                                    *)
(***************************************************************************)
\* The response of login in the current state.
login_response(email, password) ==
    LET user == find_one_by_email(users, email)
    IN IF user = NoUser
         THEN Response("login", 401, "Invalid credentials", NoToken, <<>>)
       ELSE IF verify_password(password, user.password_hash).raised
         THEN Response("login", 500, "Internal Server Error", NoToken, <<>>)
       ELSE IF ~verify_password(password, user.password_hash).value
         THEN Response("login", 401, "Invalid credentials", NoToken, <<>>)
       ELSE Response("login", 200, "",
                     create_access_token(user.user_id, now), <<>>)

login(email, password) ==
    LET r == login_response(email, password)
        user == find_one_by_email(users, email)
    IN /\ resp' = r
       /\ IF r.status = 200
            THEN /\ Issued(r.access_token, user.user_id, now) \in issued
                    \/ Cardinality(issued) < MaxTokens
                 /\ issued' = issued \cup
                       {Issued(r.access_token, user.user_id, now)}
            ELSE UNCHANGED issued
       /\ UNCHANGED <<users, subscriptions, pending, now, mails>>

(***************************************************************************)
(* GET /api/subscriptions                                                  *)
(***************************************************************************)
\* datetime.fromisoformat accepts the string.
IsIsoDate(d) == d = "2025-01-01"

\* The per-document conversion of the loop at the end of list_subscriptions.
Deserialize(d) ==
    [d EXCEPT !.renewal_date = [fmt |-> "datetime", s |-> d.renewal_date],
              !.created_at = fromisoformat(d.created_at)]

list_subscriptions(authorization) ==
    LET gate == get_current_user(authorization, now, users)
        subs == to_list(find_subscriptions(subscriptions, gate.user.user_id),
                        PageLimit)
    IN /\ resp' =
            IF ~authorization.present
              THEN Response("list_subscriptions", 422, "Field required",
                            NoToken, <<>>)
            ELSE IF gate.status # 200
              THEN Response("list_subscriptions", gate.status, gate.detail,
                            NoToken, <<>>)
            ELSE IF \E i \in 1 .. Len(subs) : ~IsIsoDate(subs[i].renewal_date)
              THEN Response("list_subscriptions", 500, "Internal Server Error",
                            NoToken, <<>>)
            ELSE Response("list_subscriptions", 200, "", NoToken,
                          [i \in 1 .. Len(subs) |-> Deserialize(subs[i])])
       /\ UNCHANGED <<users, subscriptions, pending, now, issued, mails>>

(***************************************************************************)
(* POST /api/subscriptions                                                 *)
(***************************************************************************)
\* The request-model validation of SubscriptionCreate: company a string,
\* amount a number (or a numeric string), renewal_date a string.
IsNumeric(a) == a = "15.99"
Validates(data) ==
    /\ data.company # None
    /\ IsNumeric(data.amount)
    /\ data.renewal_date # None

\* create_subscription inserting before the gate has answered, with the
\* owner read from the token's unverified payload.
create_subscription_early(data, authorization) ==
    LET gate == get_current_user(authorization, now, users)
        claimed == IF Len(authorization.parts) >= 2
                     THEN authorization.parts[2].tok.sub ELSE NoId
    IN IF ~authorization.present \/ ~Validates(data)
         THEN /\ resp' = Response("create_subscription", 422,
                                  "Unprocessable Entity", NoToken, <<>>)
              /\ UNCHANGED <<users, subscriptions, pending, now, issued, mails>>
       ELSE /\ Len(subscriptions) < MaxSubs
            /\ subscriptions' = Append(subscriptions,
                  [subscription_id |-> NextSubscriptionId,
                   user_id |-> claimed,
                   company |-> data.company,
                   amount |-> data.amount,
                   renewal_date |-> data.renewal_date,
                   status |-> "active",
                   created_at |-> IsoString(now)])
            /\ resp' = IF gate.status # 200
                         THEN Response("create_subscription", gate.status,
                                       gate.detail, NoToken, <<>>)
                       ELSE Response("create_subscription", 200, "success",
                                     NoToken, <<>>)
            /\ UNCHANGED <<users, pending, now, issued, mails>>

create_subscription(data, authorization) ==
    LET gate == get_current_user(authorization, now, users)
    IN IF ~authorization.present \/ ~Validates(data)
         THEN /\ resp' = Response("create_subscription", 422,
                                  "Unprocessable Entity", NoToken, <<>>)
              /\ UNCHANGED <<users, subscriptions, pending, now, issued, mails>>
       ELSE IF gate.status # 200
         THEN /\ resp' = Response("create_subscription", gate.status,
                                  gate.detail, NoToken, <<>>)
              /\ UNCHANGED <<users, subscriptions, pending, now, issued, mails>>
       ELSE /\ Len(subscriptions) < MaxSubs
            /\ subscriptions' = Append(subscriptions,
                  [subscription_id |-> NextSubscriptionId,
                   user_id |-> gate.user.user_id,
                   company |-> data.company,
                   amount |-> data.amount,
                   renewal_date |-> data.renewal_date,
                   status |-> "active",
                   created_at |-> IsoString(now)])
            /\ resp' = Response("create_subscription", 200, "success",
                                NoToken, <<>>)
            /\ UNCHANGED <<users, pending, now, issued, mails>>

(***************************************************************************)
(* POST /api/alerts/test                                                   *)
(***************************************************************************)
\* send_test_email catching the collaborator's failure and answering success.
send_test_email_swallow(authorization, delivered) ==
    LET gate == get_current_user(authorization, now, users)
    IN IF ~authorization.present
         THEN /\ resp' = Response("send_test_email", 422, "Field required",
                                  NoToken, <<>>)
              /\ UNCHANGED <<users, subscriptions, pending, now, issued, mails>>
       ELSE IF gate.status # 200
         THEN /\ resp' = Response("send_test_email", gate.status, gate.detail,
                                  NoToken, <<>>)
              /\ UNCHANGED <<users, subscriptions, pending, now, issued, mails>>
       ELSE IF ~delivered
         THEN /\ resp' = Response("send_test_email", 200, "success",
                                  NoToken, <<>>)
              /\ UNCHANGED <<users, subscriptions, pending, now, issued, mails>>
       ELSE /\ Len(mails) < MaxMails
            /\ mails' = Append(mails,
                  [from |-> SENDER_EMAIL, to |-> <<gate.user.email>>,
                   subject |-> "CancelShield Test Alert"])
            /\ resp' = Response("send_test_email", 200, "success",
                                NoToken, <<>>)
            /\ UNCHANGED <<users, subscriptions, pending, now, issued>>

send_test_email(authorization, delivered) ==
    LET gate == get_current_user(authorization, now, users)
    IN IF ~authorization.present
         THEN /\ resp' = Response("send_test_email", 422, "Field required",
                                  NoToken, <<>>)
              /\ UNCHANGED <<users, subscriptions, pending, now, issued, mails>>
       ELSE IF gate.status # 200
         THEN /\ resp' = Response("send_test_email", gate.status, gate.detail,
                                  NoToken, <<>>)
              /\ UNCHANGED <<users, subscriptions, pending, now, issued, mails>>
       ELSE IF ~delivered
         THEN /\ resp' = Response("send_test_email", 500,
                                  "Internal Server Error", NoToken, <<>>)
              /\ UNCHANGED <<users, subscriptions, pending, now, issued, mails>>
       ELSE /\ Len(mails) < MaxMails
            /\ mails' = Append(mails,
                  [from |-> SENDER_EMAIL, to |-> <<gate.user.email>>,
                   subject |-> "CancelShield Test Alert"])
            /\ resp' = Response("send_test_email", 200, "success",
                                NoToken, <<>>)
            /\ UNCHANGED <<users, subscriptions, pending, now, issued>>

\* The clock advances.
Tick ==
    /\ \E t \in Instants : t > now
    /\ now' = CHOOSE t \in Instants : t > now /\ \A s \in Instants : s > now => t <= s
    /\ UNCHANGED <<users, subscriptions, pending, issued, mails, resp>>

Next ==
    \/ \E ep \in RegisterInputs, n \in Names : register(ep[1], ep[2], n)
    \/ \E u \in pending : register_insert(u)
    \/ \E ep \in LoginInputs : login(ep[1], ep[2])
    \/ \E h \in RequestHeaders : list_subscriptions(h)
    \/ \E hd \in CreateInputs : create_subscription(hd[2], hd[1])
    \/ \E hd \in SendInputs : send_test_email(hd[1], hd[2])
    \/ Tick

Spec == Init /\ [][Next]_vars

(***************************************************************************)
(* Notions the properties are stated with.                                 *)
(***************************************************************************)
BearerOf(k) == HeaderOf(<<BearerAtom, TokenAtom(k)>>)

\* The token is signed with the process's secret over its own payload.
WellSigned(k) == k.kind = "jwt" /\ k.sig = Sign(JWT_SECRET, k.sub, k.exp)

\* The token's expiry second lies before the clock's second.
ExpiryPassed(k, t) == k.exp < Seconds(t)

KnownUser(id) == \E i \in 1 .. Len(users) : users[i].user_id = id

\* The header uses the bearer scheme: what follows "Bearer " is its token.
UsesBearer(h) == h.present /\ h.parts # <<>> /\ Head(h.parts) = BearerAtom
Credential(h) == Tail(h.parts)

\* The header carries one token, well signed, unexpired, of a stored user.
Admissible(h, t) ==
    /\ UsesBearer(h)
    /\ Len(Credential(h)) = 1
    /\ WellSigned(Credential(h)[1].tok)
    /\ ~ExpiryPassed(Credential(h)[1].tok, t)
    /\ KnownUser(Credential(h)[1].tok.sub)

\* The strings decode_access_token is tried on.
Strings ==
    {h.parts : h \in Headers} \cup {replace_bearer(h.parts) : h \in Headers}

ValidTokenString(str, t) ==
    /\ Len(str) = 1
    /\ WellSigned(str[1].tok)
    /\ ~ExpiryPassed(str[1].tok, t)

(***************************************************************************)
(* C1: get_current_user answers 401 and returns no user when the header is *)
(* absent, is not of the bearer scheme, or its token is malformed, expired *)
(* or of a user not in the store; it returns a user only otherwise.        *)
(***************************************************************************)
C1_GateRejects ==
    \A h \in Headers :
        LET r == get_current_user(h, now, users)
        IN IF Admissible(h, now)
             THEN r.status = 200 /\ r.user.user_id = Credential(h)[1].tok.sub
           ELSE r.status = 401 /\ r.user = NoUser

C3_Original ==
    \A i \in issued :
        LET r == decode_access_token(<<TokenAtom(i.token)>>, now)
        IN /\ now < i.at + Lifetime => r = i.user_id
           /\ now > i.at + Lifetime => r = NoId

(***************************************************************************)
(* C3 amended: a token issued at t decodes to its user_id as long as the   *)
(* clock's whole second is not beyond the whole second of t plus 7 days,   *)
(* and to None from the following second on.                               *)
(***************************************************************************)
C3_SevenDaysInWholeSeconds ==
    \A i \in issued :
        LET r == decode_access_token(<<TokenAtom(i.token)>>, now)
            last == Seconds(i.at) + JWT_EXPIRE_DAYS * SecondsPerDay
        IN /\ Seconds(now) <= last => r = i.user_id
           /\ Seconds(now) > last => r = NoId

\* A token is past t + 7 days and still decodes; another instant later it
\* no longer does.
C3_Witness ==
    \E i \in issued :
        /\ Seconds(now) > Seconds(i.at) + JWT_EXPIRE_DAYS * SecondsPerDay
        /\ decode_access_token(<<TokenAtom(i.token)>>, now) = NoId
        /\ decode_access_token(<<TokenAtom(i.token)>>, i.at + Lifetime + 1)
             = i.user_id

(***************************************************************************)
(* C4: every entry list_subscriptions returns has the user_id of the user  *)
(* the request's token authenticated as.                                   *)
(***************************************************************************)
C4_ListOnlyOwn ==
    [][\A h \in RequestHeaders :
          list_subscriptions(h) =>
              \A i \in 1 .. Len(resp'.items) :
                  resp'.items[i].user_id
                    = get_current_user(h, now, users).user.user_id]_vars

\* A listing has just been answered to a user who owns nothing, while the
\* store holds a subscription of another user: none of it came back.
C4_Witness ==
    /\ resp.op = "list_subscriptions" /\ resp.status = 200
    /\ resp.items = <<>>
    /\ Len(users) >= 2
    /\ subscriptions # <<>>

(***************************************************************************)
(* C5: no two user records in the store have the same email, whatever the  *)
(* interleaving of concurrent register requests.                           *)
(***************************************************************************)
C5_EmailUnique ==
    \A i, j \in 1 .. Len(users) :
        i # j => users[i].email # users[j].email

(***************************************************************************)
(* C6 as stated: register with an email of a stored user answers 400       *)
(* "Email already exists", issues no token, inserts nothing and leaves the *)
(* stored records as they are.                                             *)
(***************************************************************************)
KnownEmail(e) == \E i \in 1 .. Len(users) : users[i].email = e

Conflict == Response("register", 400, "Email already exists", NoToken, <<>>)

C6_Original ==
    [][\A ep \in RegisterInputs, n \in Names :
          (KnownEmail(ep[1]) /\ register(ep[1], ep[2], n)) =>
              /\ resp' = Conflict
              /\ UNCHANGED <<users, pending, issued>>]_vars

(***************************************************************************)
(* C6 amended: register with a non-empty password and an email of a stored *)
(* user answers 400 "Email already exists", issues no token, inserts       *)
(* nothing and leaves the stored records as they are.                      *)
(***************************************************************************)
C6_ConflictKeepsFirst ==
    [][\A ep \in RegisterInputs, n \in Names :
          (KnownEmail(ep[1]) /\ ~Falsy(ep[2]) /\ register(ep[1], ep[2], n)) =>
              /\ resp' = Conflict
              /\ UNCHANGED <<users, pending, issued>>]_vars

\* A second registration with a stored email has been turned down.
C6_Witness == resp = Conflict /\ users # <<>>

(***************************************************************************)
(* C7: every failed login answers 401 "Invalid credentials" without a      *)
(* token, and two logins with the same wrong or missing password, one for  *)
(* a registered email and one for an unregistered email, answer alike.     *)
(***************************************************************************)
InvalidCredentials ==
    Response("login", 401, "Invalid credentials", NoToken, <<>>)

C7_LoginGeneric ==
    /\ (resp.op = "login" /\ resp.status # 200) => resp = InvalidCredentials
    /\ \A e1, e2 \in Emails \cup {None},
          p \in Passwords \cup WrongPasswords \cup {None} :
          (/\ KnownEmail(e1)
           /\ ~KnownEmail(e2)
           /\ login_response(e1, p).status # 200)
            => login_response(e1, p) = login_response(e2, p)

(***************************************************************************)
(* C8: each protected endpoint, called without an Authorization header,    *)
(* answers 401, writes nothing to the store and sends no mail.             *)
(***************************************************************************)
C8_NoHeaderIs401 ==
    [][(\/ list_subscriptions(NoHeader)
        \/ \E d \in DataInputs : create_subscription(d, NoHeader)
        \/ \E ok \in BOOLEAN : send_test_email(NoHeader, ok)) =>
          /\ resp'.status = 401
          /\ UNCHANGED <<users, subscriptions, mails>>]_vars

(***************************************************************************)
(* C9: a token returned by register or login authenticates as the user it  *)
(* was issued for at every later instant before its expiry, whatever ran   *)
(* in between; a later token does not invalidate an earlier one.           *)
(***************************************************************************)
C9_TokenStaysValid ==
    \A i \in issued :
        now < i.token.exp * TicksPerSec =>
            LET r == get_current_user(BearerOf(i.token), now, users)
            IN r.status = 200 /\ r.user.user_id = i.user_id

\* Two different tokens of one user are outstanding, time has passed since
\* the first was issued, and a request has just been authenticated.
C9_Witness ==
    /\ resp.status = 200 /\ resp.op = "list_subscriptions"
    /\ \E a, b \in issued :
          /\ a.token # b.token
          /\ a.user_id = b.user_id
          /\ a.at < now
          /\ now < a.token.exp * TicksPerSec
          /\ now < b.token.exp * TicksPerSec

(***************************************************************************)
(* C10: create_subscription by an authenticated user answers with a        *)
(* validation error and persists nothing when company is absent or empty,  *)
(* amount is absent or not numeric, or renewal_date is absent or not a     *)
(* well-formed date; it persists only when all three are well-formed.      *)
(***************************************************************************)
WellFormedData(d) ==
    /\ ~Falsy(d.company)
    /\ IsNumeric(d.amount)
    /\ IsIsoDate(d.renewal_date)

C10_CreateValidates ==
    [][\A hd \in CreateInputs :
          (/\ get_current_user(hd[1], now, users).status = 200
           /\ ~WellFormedData(hd[2])
           /\ create_subscription(hd[2], hd[1])) =>
              /\ resp'.status = 422
              /\ subscriptions' = subscriptions]_vars

(***************************************************************************)
(* C11: list_subscriptions with a user's valid token succeeds and returns  *)
(* exactly the subscriptions that user created (at most 100 of them), each *)
(* with the company, amount and renewal date given at creation, status     *)
(* "active" and that user's user_id.                                       *)
(***************************************************************************)
OwnSubscriptions(id) ==
    LET Own(d) == d.user_id = id
    IN SelectSeq(subscriptions, Own)

C11_ListReturnsAll ==
    [][\A k \in IssuedTokens :
          (~ExpiryPassed(k, now) /\ list_subscriptions(BearerOf(k))) =>
              LET own == OwnSubscriptions(k.sub)
              IN /\ resp'.status = 200
                 /\ Len(resp'.items) =
                      (IF Len(own) <= PageLimit THEN Len(own) ELSE PageLimit)
                 /\ \A i \in 1 .. Len(resp'.items) :
                       /\ resp'.items[i].subscription_id = own[i].subscription_id
                       /\ resp'.items[i].company = own[i].company
                       /\ resp'.items[i].amount = own[i].amount
                       /\ resp'.items[i].renewal_date.s = own[i].renewal_date
                       /\ resp'.items[i].status = "active"
                       /\ resp'.items[i].user_id = k.sub]_vars

(***************************************************************************)
(* C12: every subscription in the store has the user_id of a user in the   *)
(* store; only create_subscription inserts subscriptions, and only after   *)
(* the gate resolved the request's token to a stored user.                 *)
(***************************************************************************)
C12_SubscriptionsReferenceUsers ==
    /\ [](\A i \in 1 .. Len(subscriptions) : KnownUser(subscriptions[i].user_id))
    /\ [][subscriptions' # subscriptions =>
            \E hd \in CreateInputs :
                /\ create_subscription(hd[2], hd[1])
                /\ get_current_user(hd[1], now, users).status = 200
                /\ KnownUser(get_current_user(hd[1], now, users).user.user_id)
                /\ Len(subscriptions') = Len(subscriptions) + 1
                /\ subscriptions'[Len(subscriptions')].user_id
                     = get_current_user(hd[1], now, users).user.user_id]_vars

\* A subscription has just been created while two users are stored.
C12_Witness ==
    /\ resp.op = "create_subscription" /\ resp.status = 200
    /\ subscriptions # <<>>
    /\ Len(users) >= 2

(***************************************************************************)
(* A store that already holds one user when the process starts: its        *)
(* password_hash was written by hash_password, or it is a value that is no *)
(* hash of a known scheme (a record written by an import).                 *)
(***************************************************************************)
MalformedHash == [scheme |-> "plain", salt |-> 0, digest |-> "pw123"]

StoredUser(email, hashed) ==
    [user_id |-> 1, email |-> email, name |-> "Al", password_hash |-> hashed,
     subscription_tier |-> "free", created_at |-> IsoString(0)]

InitStored ==
    /\ users \in {<<StoredUser(e, h)>> :
                     e \in Emails, h \in {MalformedHash, hash_password("pw123", 1)}}
    /\ subscriptions = <<>>
    /\ pending = {}
    /\ now = 0
    /\ issued = {}
    /\ mails = <<>>
    /\ resp = NoResponse

NextStored ==
    \/ \E ep \in RegisterInputs, n \in Names : register(ep[1], ep[2], n)
    \/ \E u \in pending : register_insert(u)
    \/ \E ep \in LoginInputs : login(ep[1], ep[2])
    \/ Tick

SpecStored == InitStored /\ [][NextStored]_vars

(***************************************************************************)
(* C13: verify_password never raises; against a stored hash that is        *)
(* malformed it returns false, so a login for that user answers 401        *)
(* "Invalid credentials".                                                  *)
(***************************************************************************)
C13_VerifyNeverRaises ==
    [][\A ep \in LoginInputs :
          (/\ ep[2] # None
           /\ find_one_by_email(users, ep[1]) # NoUser
           /\ login(ep[1], ep[2])) =>
              LET hashed == find_one_by_email(users, ep[1]).password_hash
              IN /\ ~verify_password(ep[2], hashed).raised
                 /\ hashed.scheme # "bcrypt" =>
                       /\ ~verify_password(ep[2], hashed).value
                       /\ resp' = InvalidCredentials]_vars

(***************************************************************************)
(* C14: a user record, once inserted by register, is never modified or     *)
(* removed by any operation; the users collection changes only when        *)
(* register inserts, and then by exactly one added record.                 *)
(***************************************************************************)
C14_UsersImmutable ==
    [][/\ Len(users') >= Len(users)
       /\ \A i \in 1 .. Len(users) : users'[i] = users[i]
       /\ users' # users =>
             /\ Len(users') = Len(users) + 1
             /\ \E u \in pending : register_insert(u)
             /\ resp'.op = "register" /\ resp'.status = 200]_vars

\* Both users are stored, time has passed since they registered, and a
\* protected operation has just been served.
C14_Witness ==
    /\ Len(users) = 2
    /\ now > users[2].created_at.t
    /\ resp.op = "send_test_email" /\ resp.status = 200

(***************************************************************************)
(* C15: verify_password(p, hash_password(p)) is true for every password p; *)
(* two calls of hash_password(p) return different hashes, both of which    *)
(* verify against p; verify_password(q, hash_password(p)) is false for q   *)
(* different from p.                                                       *)
(***************************************************************************)
SomePasswords == Passwords \cup WrongPasswords \cup {""}
SaltDraws == 1 .. MaxUsers + 1

EmailOf(id) ==
    CHOOSE e \in {users[i].email : i \in {j \in 1 .. Len(users) :
                                             users[j].user_id = id}} : TRUE

C16_MailOnceToCaller ==
    [][\A hd \in SendInputs :
          (resp'.op = "send_test_email" /\ send_test_email(hd[1], hd[2])) =>
              LET gate == get_current_user(hd[1], now, users)
                  id == decode_access_token(replace_bearer(hd[1].parts), now)
              IN /\ UNCHANGED <<users, subscriptions, pending, issued>>
                 /\ IF hd[1].present /\ gate.status = 200
                      THEN IF hd[2]
                             THEN /\ Len(mails') = Len(mails) + 1
                                  /\ SubSeq(mails', 1, Len(mails)) = mails
                                  /\ mails'[Len(mails')].to = <<EmailOf(id)>>
                                  /\ mails'[Len(mails')].from = SENDER_EMAIL
                                  /\ resp'.status = 200
                           ELSE /\ mails' = mails
                                /\ resp'.status = 500
                    ELSE /\ mails' = mails
                         /\ resp'.status \in {401, 422}]_vars

\* A mail to the second user has been delivered, and that is the only mail.
C16_Witness ==
    /\ resp.op = "send_test_email" /\ resp.status = 200
    /\ Len(users) = 2
    /\ users[1].email # users[2].email
    /\ mails = <<[from |-> SENDER_EMAIL, to |-> <<users[2].email>>,
                  subject |-> "CancelShield Test Alert"]>>

(***************************************************************************)
(* C17: an operation that ends in an error response (register 400, login   *)
(* 401, a protected operation's 401 or 422, a mail failure) leaves users   *)
(* and subscriptions exactly as they were; a successful register or        *)
(* create_subscription adds exactly one record to its collection and       *)
(* changes nothing else.                                                   *)
(***************************************************************************)
\* seq2 is seq1 with exactly one record appended.
OneAppended(seq1, seq2) ==
    /\ Len(seq2) = Len(seq1) + 1
    /\ SubSeq(seq2, 1, Len(seq1)) = seq1

\* The step completes a register request, or is a create_subscription request.
Registers == \E u \in pending : register_insert(u)
Creates == \E hd \in CreateInputs : create_subscription(hd[2], hd[1])

C17_ErrorsLeaveStore ==
    [][/\ resp'.status # 200 =>
              /\ users' = users
              /\ subscriptions' = subscriptions
       /\ users' # users =>
              /\ Registers
              /\ resp'.op = "register" /\ resp'.status = 200
       /\ subscriptions' # subscriptions =>
              /\ Creates
              /\ resp'.op = "create_subscription" /\ resp'.status = 200
       /\ (resp'.op = "register" /\ resp'.status = 200 /\ Registers) =>
              /\ OneAppended(users, users')
              /\ subscriptions' = subscriptions /\ mails' = mails
       /\ (resp'.op = "create_subscription" /\ resp'.status = 200 /\ Creates) =>
              /\ OneAppended(subscriptions, subscriptions')
              /\ users' = users /\ mails' = mails]_vars

\* A register request was refused with 400 while the store holds a user and a
\* subscription.
C17_Witness ==
    /\ resp.op = "register" /\ resp.status = 400
    /\ resp.detail = "Email already exists"
    /\ users # <<>>
    /\ subscriptions # <<>>

(***************************************************************************)
(* C18: the token handed to decode_access_token is the header value with   *)
(* its single leading "Bearer " removed, so a header authenticates only if *)
(* it is "Bearer " immediately followed by a valid token;                  *)
(* "Bearer Bearer <valid token>" is answered 401.                          *)
(***************************************************************************)
\* A protected operation is requested with this header.
Gated(h) ==
    \/ list_subscriptions(h)
    \/ create_subscription(ValidData, h)
    \/ send_test_email(h, TRUE)

C18_SinglePrefixRemoved ==
    [][\A h \in RequestHeaders :
          (UsesBearer(h) /\ Gated(h)) =>
              /\ replace_bearer(h.parts) = Credential(h)
              /\ resp'.status = 200 =>
                    /\ Len(Credential(h)) = 1
                    /\ Credential(h)[1] # BearerAtom
                    /\ ValidTokenString(Credential(h), now)
              /\ (Len(h.parts) >= 2 /\ h.parts[2] = BearerAtom) =>
                    resp'.status = 401]_vars

====
